---- MODULE Spec2Model ----
(***************************************************************************)
(* Coverage region aggregation of CXWorks/rug-ae: the collectors           *)
(*   base_4/llm_4_base_cov/main.py      (collect_result, boolean store,    *)
(*                                       snapshot cov_map.json rehydrated) *)
(*   rug_ae1/rulf/collect_cov.py        (cov_select, count store)          *)
(*   .../rusty-unit-18/t.py             (collect_result, max store,        *)
(*                                       snapshot written, never read)     *)
(* their coordinators (execute_cov of base_4/main.py, of                   *)
(* rug_ae1/source/rug-gpt/cov_collect_pr.py and of                         *)
(* rustyunit/rustyunit_replay/main.py, the replay loop of cov_select) and  *)
(* the parallel driver of base_4/main.py (multiprocessing.Pool over        *)
(* run_single).  Further: the counting collector                           *)
(* rug_ae1/source/rug-gpt/cov_collect.py, the clean/replay/merge sequence  *)
(* of cov_select, the reconciliation of two stores in rug-gpt/t.py and the *)
(* test injection of base_uni_test.py, rug_prompt.py and fsync_patch.py.   *)
(* Text (paths, source lines, keys, JSON numbers) is modelled as sequences *)
(* of one-character strings.                                               *)
(***************************************************************************)
EXTENDS Integers, Sequences, FiniteSets, TLC

VARIABLES
  prog,           \* the collector that runs
  src,            \* the source files: path |-> lines
  snapshot,       \* cov_map.json on disk
  mamp_reg,       \* the store of the running pass
  map,            \* the boundary cache of the running pass
  filename,       \* the file of the function record being read
  is_valid_func,  \* base_4: the flag of the function record being read
  pc,             \* idle | funcs | regions | persist | crashed
  passes,         \* passes finished
  nfuncs,         \* function records read in the running pass
  nregs,          \* regions read of the function record being read
  out,            \* the last printed pair reg_count, reg_total
  export,         \* SpecTwice: the raw export that is merged repeatedly
  snap0,          \* history: the snapshot the process found at its start
  entry,          \* history: the store when the function record was entered
  everHit,        \* history: keys merged in base_4 or cov_collect with count > 0
  func,           \* func['filenames'] of the function record being read
  raised,         \* the exception that ended the process, "" when none
  reports,        \* pairs reg_count, reg_total printed so far
  torn,           \* cov_map.json was opened for writing and is not yet closed
  old,            \* history: cov_map.json when the running pass started
  reads,          \* history: per file, the calls of parse_file in the running pass
  reg_total,      \* cov_collect: the running total of regions
  reg_count,      \* cov_collect: the running total of regions with count > 0
  coord,          \* execute_cov: the coordinator that runs, "" when none
  tars,           \* execute_cov: per listed target, whether a corpus directory exists
  ti,             \* execute_cov: targets handled
  epc,            \* execute_cov: next | test | corpus | fuzz | collect | done
  run,            \* the execution in flight: none | running | hung
  counter,        \* execute_cov: counter (idx in cov_select)
  cov,            \* the directory cov/: path |-> the execution whose profile it holds
  paths,          \* history: LLVM_PROFILE_FILE of each execution launched
  merged,         \* history: executions whose profile llvm-profdata merge has read
  lost,           \* history: executions whose profile was overwritten unmerged
  driver,         \* the parallel driver: rest | map | done | raised
  todo,           \* p.map: the project directories not yet handed to a worker
  worker,         \* per pool worker: the project of its child process, where the child stands
  status,         \* per project: todo | running | completed | crashed | killed
  disk,           \* per snapshot path: completed writes, and whether a write is open
  dir,            \* cov_select: the analysed directory
  queues,         \* cov_select: per target, per queue entry, whether its name starts with 'id'
  tn,             \* cov_select: targets handled
  qn,             \* cov_select: queue entries of the target handled
  idx,            \* cov_select: idx
  spc,            \* cov_select: rest | clean | replay | done
  fs,             \* the profile files: path |-> <<target, idx>> of the execution that wrote it
  mergedBy,       \* history: per target handled, the profiles llvm-profdata merge read
  disk1,          \* rug-gpt/t.py: fd1 + tar + '/cov_map.json'
  disk2,          \* rug-gpt/t.py: fd2 + tar + '/cov_map.json'
  ma,             \* rug-gpt/t.py: ma
  mb,             \* rug-gpt/t.py: mb
  ct,             \* rug-gpt/t.py: ct
  seen,           \* rug-gpt/t.py: the keys of ma the loop has visited
  rpc,            \* rug-gpt/t.py: rest | start | loop | done
  printed,        \* rug-gpt/t.py: the line printed at the end
  tool,           \* the injecting script: base_uni_test | rug_prompt | fsync_patch, "" when none
  pathDefined,    \* rug_prompt.py: the global path is assigned (fewer than two arguments)
  ncrates,        \* crates listed by cargo ws list (files of ans in fsync_patch)
  ntargets,       \* targets of each crate (tests of each file in fsync_patch)
  files,          \* per crate, the source file of its targets: whether it exists, its lines
  ci,             \* crates (files) handled
  tj,             \* targets of the crate handled
  uid,            \* uid (counter in fsync_patch)
  nmsgs,          \* base_uni_test.py: len(messages)
  my_counter,     \* rug_prompt.py: my_counter
  answered,       \* base_uni_test.py: target in ans
  ipc,            \* rest | crate | target | request | verify | compile | done | crashed
  origins,        \* the lines read before the injection in flight
  attempts,       \* history: injections (calls of compile_run) for the target
  verified        \* history: per crate, the original lines and the injections that compiled

collectVars == <<prog, src, snapshot, mamp_reg, map, filename, is_valid_func, pc,
                 passes, nfuncs, nregs, out, export, snap0, entry, everHit,
                 func, raised, reports, torn, old, reads, reg_total, reg_count>>

execVars == <<coord, tars, ti, epc, run, counter, cov, paths, merged, lost>>

poolVars == <<driver, todo, worker, status, disk>>

selectVars == <<dir, queues, tn, qn, idx, spc, fs, mergedBy>>

reconVars == <<disk1, disk2, ma, mb, ct, seen, rpc, printed>>

injectVars == <<tool, pathDefined, ncrates, ntargets, files, ci, tj, uid, nmsgs,
                my_counter, answered, ipc, origins, attempts, verified>>

vars == <<collectVars, execVars, poolVars, selectVars, reconVars, injectVars>>

----------------------------------------------------------------------------
(* Bounds *)

MaxLines == 2      \* lines of a source file given to parse_file
MaxHit == 1        \* largest execution count of a region
MaxRegions == 2    \* regions of one function record
MaxFuncs == 2      \* function records of one pass
MaxPasses == 2     \* passes over one snapshot path

----------------------------------------------------------------------------
(* Text *)

Empty == <<>>

\* Python: sub in s
Contains(sub, s) ==
  \E i \in 0..(Len(s) - Len(sub)) : SubSeq(s, i + 1, i + Len(sub)) = sub

\* Python: s.startswith(sub)
StartsWith(s, sub) ==
  Len(sub) <= Len(s) /\ SubSeq(s, 1, Len(sub)) = sub

Digits == <<"0", "1", "2", "3", "4", "5", "6", "7", "8", "9">>

RECURSIVE Str(_)
\* Python: str(n) for n >= 0
Str(n) == IF n < 10 THEN <<Digits[n + 1]>>
          ELSE Str(n \div 10) \o <<Digits[(n % 10) + 1]>>

RECURSIVE ParseInt(_)
\* the integer a JSON number token denotes
ParseInt(s) ==
  LET DigitVal(c) == CHOOSE d \in 0..9 : Digits[d + 1] = c
  IN  IF Len(s) = 1 THEN DigitVal(s[1])
      ELSE 10 * ParseInt(SubSeq(s, 1, Len(s) - 1)) + DigitVal(s[Len(s)])

----------------------------------------------------------------------------
(* The file system the collectors run on *)

\* os.getcwd(): the project root
Cwd == <<"/", "p">>

\* a file of the project, a file of a sibling directory whose name extends
\* the project's, a file of a dependency
FileIn == <<"/", "p", "/", "s", "r", "c", "/", "a">>
FileSib == <<"/", "p", "q", "/", "s", "r", "c", "/", "a">>
FileDep == <<"/", "q", "/", "a">>

Paths == {FileIn, FileSib, FileDep}

CfgTest == <<"#", "[", "c", "f", "g", "(", "t", "e", "s", "t", ")", "]">>
ModTests == <<"m", "o", "d", " ", "t", "e", "s", "t", "s">>

CodeLine == <<"f", "n", " ", "f", "(", ")">>
CfgLine == CfgTest
ModLine == ModTests \o <<" ", "{">>

RECURSIVE SeqsUpTo(_, _)
SeqsUpTo(S, n) ==
  IF n = 0 THEN {<<>>}
  ELSE LET shorter == SeqsUpTo(S, n - 1)
       IN shorter \cup {Append(s, x) : s \in shorter, x \in S}

FileContents ==
  LET SourceLines == {CodeLine, CfgLine, ModLine}
  IN  SeqsUpTo(SourceLines, MaxLines)

\* the layouts of the source tree the aggregation passes run on: the project
\* file either opens its test module on line 1 or has a test attribute on
\* its last line
TestsFirst == <<CfgLine, ModLine>>

Layouts ==
  LET TestsLast == <<CodeLine, CfgLine>>
  IN
  { [f \in Paths |-> IF f = FileIn THEN c
                     ELSE IF f = FileSib THEN TestsFirst
                     ELSE <<CodeLine, CodeLine>>] :
      c \in {TestsFirst, TestsLast} }

----------------------------------------------------------------------------
(* Boundary resolver *)

HasMarker(p, l) ==
  LET FuzzDriver == <<"f", "u", "z", "z", "d", "r", "i", "v", "e", "r", "_">>
      Markers == IF p = "base_4" THEN {ModTests, CfgTest}
                 ELSE IF p = "rulf" THEN {CfgTest}
                 ELSE {FuzzDriver, CfgTest}
  IN  \E m \in Markers : Contains(m, l)

RECURSIVE scan(_, _, _, _)
\* the for loop of parse_file from line i on, ans being the counter
scan(p, ls, i, ans) ==
  IF i > Len(ls) THEN ans
  ELSE IF HasMarker(p, ls[i]) THEN ans
  ELSE scan(p, ls, i + 1, ans + 1)

RECURSIVE scan_t18(_, _, _)
\* the loop of rusty-unit-18/t.py parse_file; -1 stands for the IndexError
\* of ls[i+1] when a marker is on the last line
scan_t18(ls, i, ans) ==
  LET ModLit == <<"m", "o", "d">>
  IN
  IF i > Len(ls) THEN ans
  ELSE IF HasMarker("t18", ls[i])
       THEN IF i + 1 > Len(ls) THEN -1
            ELSE IF StartsWith(ls[i + 1], ModLit) THEN ans
            ELSE scan_t18(ls, i + 1, ans + 1)
  ELSE scan_t18(ls, i + 1, ans + 1)

\* the counter started at 0
parse_file_from0(p, ls) == IF p = "t18" THEN scan_t18(ls, 1, 0) ELSE scan(p, ls, 1, 0)

parse_file(p, ls) == IF p = "t18" THEN scan_t18(ls, 1, 1) ELSE scan(p, ls, 1, 1)

----------------------------------------------------------------------------
(* Raw export *)

\* the line numbers of a file of the layouts
LineNos == 1..Len(TestsFirst)

RegionsOK ==
  \* a region of the export: <<lineStart, colStart, lineEnd, colEnd, count, kind>>
  LET Regions ==
        LET Kinds == {0}
            Cols == {1}
        IN
        { <<lst, sc, led, ec, count, kind>> :
            lst \in LineNos, sc \in Cols, led \in LineNos, ec \in Cols,
            count \in 0..MaxHit, kind \in Kinds }
  IN  { r \in Regions : r[1] <= r[3] }

\* func['filenames']: one file, and the two malformed shapes
FileLists == { <<f>> : f \in Paths } \cup { <<>>, <<FileIn, FileDep>> }

----------------------------------------------------------------------------
(* Store *)

NoStore == <<>>

Has(store, k) == k \in DOMAIN store

\* Python: store.get(k, d)
Get(store, k, d) == IF Has(store, k) THEN store[k] ELSE d

\* Python: store[k] = v
Put(store, k, v) == [x \in (DOMAIN store) \cup {k} |-> IF x = k THEN v ELSE store[x]]

\* k = filename + '/' + str(lst) + '/' + str(sc) + '/' + str(led) + '/' + str(ec)
MakeKey(f, r) ==
  f \o <<"/">> \o Str(r[1]) \o <<"/">> \o Str(r[2]) \o <<"/">> \o Str(r[3])
    \o <<"/">> \o Str(r[4])

----------------------------------------------------------------------------
(* One iteration of  for regions in func['regions']  in each collector:    *)
(* the store after it, whether the loop goes on, and base_4's flag         *)

\* the start line compared with the limit
base_4_region_lst(store, f, limit, r) ==
  LET lst == r[1]
      count == r[5]
      k == MakeKey(f, r)
  IN IF lst > limit THEN [reg |-> store, go |-> FALSE, valid |-> FALSE]
     ELSE [reg |-> Put(store, k, IF count > 0 THEN 1 ELSE Get(store, k, 0)),
           go |-> TRUE, valid |-> TRUE]

\* a region reported with count 0 overwrites the entry with 0
base_4_region_zero(store, f, limit, r) ==
  LET led == r[3]
      count == r[5]
      k == MakeKey(f, r)
  IN IF led > limit THEN [reg |-> store, go |-> FALSE, valid |-> FALSE]
     ELSE [reg |-> Put(store, k, IF count > 0 THEN 1 ELSE 0),
           go |-> TRUE, valid |-> TRUE]

\* count >= 0 in place of count > 0
base_4_region_ge(store, f, limit, r) ==
  LET led == r[3]
      count == r[5]
      k == MakeKey(f, r)
  IN IF led > limit THEN [reg |-> store, go |-> FALSE, valid |-> FALSE]
     ELSE [reg |-> Put(store, k, IF count >= 0 THEN 1 ELSE Get(store, k, 0)),
           go |-> TRUE, valid |-> TRUE]

\* a region behind the boundary is passed over and the loop goes on
base_4_region_cont(store, f, limit, r) ==
  LET led == r[3]
      count == r[5]
      k == MakeKey(f, r)
  IN IF led > limit THEN [reg |-> store, go |-> TRUE, valid |-> FALSE]
     ELSE [reg |-> Put(store, k, IF count > 0 THEN 1 ELSE Get(store, k, 0)),
           go |-> TRUE, valid |-> TRUE]

base_4_region(store, f, limit, r) ==
  LET lst == r[1]
      led == r[3]
      count == r[5]
      k == MakeKey(f, r)
  IN IF led > limit THEN [reg |-> store, go |-> FALSE, valid |-> FALSE]
     ELSE [reg |-> Put(store, k, IF count > 0 THEN 1 ELSE Get(store, k, 0)),
           go |-> TRUE, valid |-> TRUE]

\* -= in place of += on a key already in the store
rulf_region_sub(store, f, limit, r) ==
  LET lst == r[1]
      led == r[3]
      count == r[5]
      k == MakeKey(f, r)
  IN IF led > limit THEN [reg |-> store, go |-> TRUE, valid |-> TRUE]
     ELSE IF Has(store, k)
          THEN [reg |-> Put(store, k, <<store[k][1], store[k][2] - count>>),
                go |-> TRUE, valid |-> TRUE]
          ELSE [reg |-> Put(store, k, <<led - lst + 1, count>>),
                go |-> TRUE, valid |-> TRUE]

rulf_region(store, f, limit, r) ==
  LET lst == r[1]
      led == r[3]
      count == r[5]
      k == MakeKey(f, r)
  IN IF led > limit THEN [reg |-> store, go |-> TRUE, valid |-> TRUE]
     ELSE IF Has(store, k)
          THEN [reg |-> Put(store, k, <<store[k][1], store[k][2] + count>>),
                go |-> TRUE, valid |-> TRUE]
          ELSE [reg |-> Put(store, k, <<led - lst + 1, count>>),
                go |-> TRUE, valid |-> TRUE]

t18_region(store, f, limit, r) ==
  LET Max(a, b) == IF a >= b THEN a ELSE b
      led == r[3]
      count == r[5]
      k == MakeKey(f, r)
  IN IF led > limit THEN [reg |-> store, go |-> FALSE, valid |-> TRUE]
     ELSE [reg |-> Put(store, k, Max(count, Get(store, k, 0))),
           go |-> TRUE, valid |-> TRUE]

\* cov_collect.py: a key already in the store is passed over
cov_collect_region(store, f, limit, r) ==
  LET led == r[3]
      k == MakeKey(f, r)
  IN IF led > limit THEN [reg |-> store, go |-> FALSE, valid |-> FALSE]
     ELSE IF Has(store, k) THEN [reg |-> store, go |-> TRUE, valid |-> TRUE]
     ELSE [reg |-> Put(store, k, 1), go |-> TRUE, valid |-> TRUE]

\* cov_collect.py: the pair reg_count, reg_total after the iteration
cov_collect_counts(store, f, limit, r, cnt, total) ==
  LET led == r[3]
      count == r[5]
      k == MakeKey(f, r)
  IN IF led > limit \/ Has(store, k) THEN <<cnt, total>>
     ELSE <<IF count > 0 THEN cnt + 1 ELSE cnt, total + 1>>

merge_region(p, store, f, limit, r) ==
  IF p = "base_4" THEN base_4_region(store, f, limit, r)
  ELSE IF p = "rulf" THEN rulf_region(store, f, limit, r)
  ELSE IF p = "cov_collect" THEN cov_collect_region(store, f, limit, r)
  ELSE t18_region(store, f, limit, r)

\* the test that admits a function record's file
RootTest(p, f) ==
  LET RustyMonitor == <<"r", "u", "s", "t", "y", "_", "m", "o", "n", "i", "t", "o", "r", ".", "r", "s">>
      SrcLit == <<"s", "r", "c", "/">>
      \* Python: s.endswith(sub)
      EndsWith(s, sub) ==
        Len(sub) <= Len(s) /\ SubSeq(s, Len(s) - Len(sub) + 1, Len(s)) = sub
  IN
  IF p \in {"base_4", "cov_collect"} THEN Contains(Cwd, f)
  ELSE IF p = "rulf" THEN Contains(Cwd, f) /\ Contains(SrcLit, f)
  ELSE Contains(Cwd, f) /\ ~EndsWith(f, RustyMonitor)

\* an entry counts as covered
Covered(p, v) ==
  IF p = "base_4" THEN v # 0
  ELSE IF p = "rulf" THEN v[2] > 0
  ELSE v > 0

\* the printed pair reg_count, reg_total
Metrics(p, store) ==
  <<Cardinality({k \in DOMAIN store : Covered(p, store[k])}),
    Cardinality(DOMAIN store)>>

----------------------------------------------------------------------------
(* Snapshot cov_map.json: a JSON object, a set of members                  *)
(* <<key text, number text>>                                               *)

Absent == [exists |-> FALSE, doc |-> {}]

\* entries with value 0 left out of the document
JsonDump_nz(store) == { <<k, Str(store[k])>> : k \in {x \in DOMAIN store : store[x] # 0} }

\* json.dump(mamp_reg, fp)
JsonDump(store) == { <<k, Str(store[k])>> : k \in DOMAIN store }

\* entries with value 0 left out of the loaded mapping
JsonLoad_nz(doc) ==
  [k \in {m[1] : m \in {x \in doc : x[2] # <<"0">>}} |->
     ParseInt((CHOOSE m \in doc : m[1] = k)[2])]

\* json.load(fp)
JsonLoad(doc) ==
  [k \in {m[1] : m \in doc} |-> ParseInt((CHOOSE m \in doc : m[1] = k)[2])]

OnDisk(store) == [exists |-> TRUE, doc |-> JsonDump(store)]

\* snapshots left by earlier runs
SeedStores ==
  { Put(NoStore, MakeKey(FileIn, <<1, 1, 1, 1>>), 0),
    Put(Put(NoStore, MakeKey(FileIn, <<1, 1, 1, 1>>), 1),
        MakeKey(FileIn, <<1, 1, 2, 1>>), 0) }

Persists(p) == p \in {"base_4", "t18"}

----------------------------------------------------------------------------
(* The parts of the state at rest *)

\* no coordinator runs
ExecIdle ==
  /\ coord = ""
  /\ tars = <<>>
  /\ ti = 0
  /\ epc = "done"
  /\ run = "none"
  /\ counter = 0
  /\ cov = <<>>
  /\ paths = <<>>
  /\ merged = {}
  /\ lost = {}

\* no parallel driver runs
PoolIdle ==
  /\ driver = "rest"
  /\ todo = {}
  /\ worker = <<>>
  /\ status = <<>>
  /\ disk = <<>>

\* cov_select does not run
SelectIdle ==
  /\ dir = Empty
  /\ queues = <<>>
  /\ tn = 0
  /\ qn = 0
  /\ idx = 0
  /\ spc = "rest"
  /\ fs = <<>>
  /\ mergedBy = <<>>

\* run_single of rug-gpt/t.py does not run
ReconIdle ==
  /\ disk1 = Absent
  /\ disk2 = Absent
  /\ ma = NoStore
  /\ mb = NoStore
  /\ ct = 0
  /\ seen = {}
  /\ rpc = "rest"
  /\ printed = <<>>

\* no injecting script runs
InjectIdle ==
  /\ tool = ""
  /\ pathDefined = TRUE
  /\ ncrates = 0
  /\ ntargets = 0
  /\ files = <<>>
  /\ ci = 0
  /\ tj = 0
  /\ uid = 0
  /\ nmsgs = 0
  /\ my_counter = 0
  /\ answered = FALSE
  /\ ipc = "rest"
  /\ origins = <<>>
  /\ attempts = 0
  /\ verified = <<>>

\* no collector runs
CollectIdle ==
  /\ prog = "base_4"
  /\ src = [f \in Paths |-> <<CodeLine>>]
  /\ snapshot = Absent
  /\ snap0 = Absent
  /\ mamp_reg = NoStore
  /\ map = <<>>
  /\ filename = Empty
  /\ is_valid_func = TRUE
  /\ pc = "idle"
  /\ passes = 0
  /\ nfuncs = 0
  /\ nregs = 0
  /\ out = <<>>
  /\ export = <<>>
  /\ entry = NoStore
  /\ everHit = {}
  /\ func = <<>>
  /\ raised = ""
  /\ reports = 0
  /\ torn = FALSE
  /\ old = Absent
  /\ reg_count = 0
  /\ reg_total = 0
  /\ reads = <<>>

----------------------------------------------------------------------------
(* Actions *)

Progs == {"base_4", "rulf", "t18"}

Init ==
  /\ prog \in Progs
  /\ src \in Layouts
  /\ snapshot \in {Absent} \cup {OnDisk(s) : s \in IF prog = "base_4" THEN SeedStores ELSE {}}
  /\ snap0 = snapshot
  /\ mamp_reg = NoStore
  /\ map = <<>>
  /\ filename = Empty
  /\ is_valid_func = TRUE
  /\ pc = "idle"
  /\ passes = 0
  /\ nfuncs = 0
  /\ nregs = 0
  /\ out = <<>>
  /\ export = <<>>
  /\ entry = NoStore
  /\ everHit = {}
  /\ func = <<>>
  /\ raised = ""
  /\ reports = 0
  /\ torn = FALSE
  /\ old = snapshot
  /\ reg_count = 0
  /\ reg_total = 0
  /\ reads = <<>>
  /\ ExecIdle
  /\ PoolIdle
  /\ InjectIdle
  /\ ReconIdle
  /\ SelectIdle

\* cov_select keeps nothing from one call to the next: Spec follows one call,
\* SpecTwice a call over one target and a call over two; cov_collect.py calls
\* collect_result once
PassLimit == IF prog = "rulf" THEN (IF export = <<>> THEN 1 ELSE 2)
             ELSE IF prog = "cov_collect" THEN 1
             ELSE MaxPasses

\* a nonzero llvm-profdata merge: base_4 returns, t18 asserts, cov_select
\* does not look at the exit code
MergeReturns(p, res) == res = "merge_failed" /\ p = "base_4"
MergeRaises(p, res) == res = "merge_failed" /\ p \in {"t18", "cov_collect"}

\* a document that does not parse is taken for an empty store
LoadRaises_never(p, snap, t) == FALSE

\* json.load raises when cov_map.json does not hold a complete document
LoadRaises(p, snap, t) == p = "base_4" /\ snap.exists /\ t

\* the start of a pass, down to the head of the loop over the function
\* records: the two tools run, the locals are created and, in base_4, the
\* store is rehydrated from cov_map.json
Start(res) ==
  /\ pc = "idle"
  /\ passes < PassLimit
  /\ old' = snapshot
  /\ IF MergeReturns(prog, res)
     THEN /\ passes' = passes + 1
          /\ UNCHANGED <<mamp_reg, map, is_valid_func, nfuncs, pc, raised, reads, reg_total, reg_count>>
     ELSE IF MergeRaises(prog, res) \/ res = "export_failed"
     THEN /\ pc' = "crashed"
          /\ raised' = "AssertionError"
          /\ UNCHANGED <<mamp_reg, map, is_valid_func, nfuncs, passes, reads, reg_total, reg_count>>
     ELSE IF LoadRaises(prog, snapshot, torn)
     THEN /\ pc' = "crashed"
          /\ raised' = "JSONDecodeError"
          /\ UNCHANGED <<mamp_reg, map, is_valid_func, nfuncs, passes, reads, reg_total, reg_count>>
     ELSE /\ mamp_reg' = IF prog = "base_4" /\ snapshot.exists
                         THEN JsonLoad(snapshot.doc) ELSE NoStore
          /\ map' = <<>>
          /\ reads' = <<>>
          /\ reg_total' = 0
          /\ reg_count' = 0
          /\ is_valid_func' = TRUE
          /\ nfuncs' = 0
          /\ pc' = "funcs"
          /\ UNCHANGED <<passes, raised>>
  /\ UNCHANGED <<execVars, poolVars, injectVars, reconVars, selectVars, prog, src, snapshot, snap0, filename, nregs, out,
                 export, entry, everHit, func, reports, torn>>

\* a pass whose tools succeed
BeginPass == Start("ok")

\* history: parse_file(f) is called unless f is in the cache
CountRead(rd, cache, f) ==
  IF f \in DOMAIN cache THEN rd ELSE Put(rd, f, Get(rd, f, 0) + 1)

\* the record's first file is taken whatever the number of files
Enter_noassert(fns) ==
  /\ pc = "funcs"
  /\ nfuncs' = nfuncs + 1
  /\ IF Len(fns) = 0
     THEN \* func['filenames'][0]
          /\ pc' = "crashed"
          /\ raised' = "IndexError"
          /\ func' = fns
          /\ UNCHANGED <<map, filename, is_valid_func, entry, reads>>
     ELSE LET f == fns[1]
              limit == IF f \in DOMAIN map THEN map[f] ELSE parse_file(prog, src[f])
          IN IF ~RootTest(prog, f)
             THEN /\ pc' = pc
                  /\ is_valid_func' = TRUE
                  /\ UNCHANGED <<map, filename, entry, func, raised, reads>>
             ELSE IF limit = -1
             THEN /\ pc' = "crashed"
                  /\ raised' = "IndexError"
                  /\ func' = fns
                  /\ is_valid_func' = TRUE
                  /\ reads' = CountRead(reads, map, f)
                  /\ UNCHANGED <<map, filename, entry>>
             ELSE /\ pc' = "regions"
                  /\ is_valid_func' = TRUE
                  /\ map' = Put(map, f, limit)
                  /\ reads' = CountRead(reads, map, f)
                  /\ filename' = f
                  /\ func' = fns
                  /\ entry' = mamp_reg
                  /\ UNCHANGED raised
  /\ UNCHANGED <<execVars, poolVars, injectVars, reconVars, selectVars, prog, reg_count, reg_total, src, snapshot, snap0, mamp_reg, passes, nregs, out,
                 export, everHit, reports, torn, old>>

\* parse_file(filename) is called for every function record
Enter_nocache(fns) ==
  /\ pc = "funcs"
  /\ nfuncs' = nfuncs + 1
  /\ IF Len(fns) > 1
     THEN \* assert len(func['filenames']) <= 1
          /\ pc' = "crashed"
          /\ raised' = "AssertionError"
          /\ func' = fns
          /\ UNCHANGED <<map, filename, is_valid_func, entry, reads>>
     ELSE IF Len(fns) = 0
     THEN \* func['filenames'][0]
          /\ pc' = "crashed"
          /\ raised' = "IndexError"
          /\ func' = fns
          /\ UNCHANGED <<map, filename, is_valid_func, entry, reads>>
     ELSE LET f == fns[1]
              limit == parse_file(prog, src[f])
          IN IF ~RootTest(prog, f)
             THEN /\ pc' = pc
                  /\ is_valid_func' = TRUE
                  /\ UNCHANGED <<map, filename, entry, func, raised, reads>>
             ELSE IF limit = -1
             THEN /\ pc' = "crashed"
                  /\ raised' = "IndexError"
                  /\ func' = fns
                  /\ is_valid_func' = TRUE
                  /\ reads' = CountRead(reads, <<>>, f)
                  /\ UNCHANGED <<map, filename, entry>>
             ELSE /\ pc' = "regions"
                  /\ is_valid_func' = TRUE
                  /\ map' = Put(map, f, limit)
                  /\ reads' = CountRead(reads, <<>>, f)
                  /\ filename' = f
                  /\ func' = fns
                  /\ entry' = mamp_reg
                  /\ UNCHANGED raised
  /\ UNCHANGED <<execVars, poolVars, injectVars, reconVars, selectVars, prog, reg_count, reg_total, src, snapshot, snap0, mamp_reg, passes, nregs, out,
                 export, everHit, reports, torn, old>>

\* the head of one iteration of  for func in obj['data'][0]['functions'],
\* down to  limit = map[filename]
Enter(fns) ==
  /\ pc = "funcs"
  /\ nfuncs' = nfuncs + 1
  /\ IF Len(fns) > 1
     THEN \* assert len(func['filenames']) <= 1
          /\ pc' = "crashed"
          /\ raised' = "AssertionError"
          /\ func' = fns
          /\ UNCHANGED <<map, filename, is_valid_func, entry, reads>>
     ELSE IF Len(fns) = 0
     THEN \* func['filenames'][0]
          /\ pc' = "crashed"
          /\ raised' = "IndexError"
          /\ func' = fns
          /\ UNCHANGED <<map, filename, is_valid_func, entry, reads>>
     ELSE LET f == fns[1]
              limit == IF f \in DOMAIN map THEN map[f] ELSE parse_file(prog, src[f])
          IN IF ~RootTest(prog, f)
             THEN /\ pc' = pc
                  /\ is_valid_func' = TRUE
                  /\ UNCHANGED <<map, filename, entry, func, raised, reads>>
             ELSE IF limit = -1
             THEN /\ pc' = "crashed"
                  /\ raised' = "IndexError"
                  /\ func' = fns
                  /\ is_valid_func' = TRUE
                  /\ reads' = CountRead(reads, map, f)
                  /\ UNCHANGED <<map, filename, entry>>
             ELSE /\ pc' = "regions"
                  /\ is_valid_func' = TRUE
                  /\ map' = Put(map, f, limit)
                  /\ reads' = CountRead(reads, map, f)
                  /\ filename' = f
                  /\ func' = fns
                  /\ entry' = mamp_reg
                  /\ UNCHANGED raised
  /\ UNCHANGED <<execVars, poolVars, injectVars, reconVars, selectVars, prog, reg_count, reg_total, src, snapshot, snap0, mamp_reg, passes, nregs, out,
                 export, everHit, reports, torn, old>>

\* one iteration of  for regions in func['regions'];  a break leaves the
\* function record
Merge(r) ==
  /\ pc = "regions"
  /\ LET limit == map[filename]
         res == merge_region(prog, mamp_reg, filename, limit, r)
     IN /\ mamp_reg' = res.reg
        /\ is_valid_func' = res.valid
        /\ reg_count' = IF prog = "cov_collect"
                        THEN cov_collect_counts(mamp_reg, filename, limit, r,
                                                reg_count, reg_total)[1]
                        ELSE reg_count
        /\ reg_total' = IF prog = "cov_collect"
                        THEN cov_collect_counts(mamp_reg, filename, limit, r,
                                                reg_count, reg_total)[2]
                        ELSE reg_total
        /\ everHit' = IF prog \in {"base_4", "cov_collect"} /\ r[3] <= limit /\ r[5] > 0
                      THEN everHit \cup {MakeKey(filename, r)} ELSE everHit
        /\ IF res.go
           THEN /\ nregs' = nregs + 1
                /\ UNCHANGED <<pc, filename, entry, func>>
           ELSE /\ pc' = "funcs"
                /\ nregs' = 0
                /\ filename' = Empty
                /\ func' = <<>>
                /\ entry' = NoStore
  /\ UNCHANGED <<execVars, poolVars, injectVars, reconVars, selectVars, prog, reads, src, snapshot, snap0, map, passes, nfuncs, out, export,
                 raised, reports, torn, old>>

\* func['regions'] is exhausted
Leave ==
  /\ pc = "regions"
  /\ pc' = "funcs"
  /\ nregs' = 0
  /\ filename' = Empty
  /\ func' = <<>>
  /\ entry' = NoStore
  /\ UNCHANGED <<execVars, poolVars, injectVars, reconVars, selectVars, prog, reg_count, reg_total, reads, src, snapshot, snap0, mamp_reg, map, is_valid_func,
                 passes, nfuncs, out, export, everHit, raised, reports, torn,
                 old>>

\* the end of a pass: the snapshot is written (base_4, t18) and the metrics
\* are printed
Finish ==
  /\ pc = "funcs"
  /\ snapshot' = IF Persists(prog) THEN OnDisk(mamp_reg) ELSE snapshot
  /\ out' = IF prog = "cov_collect" THEN <<reg_count, reg_total>>
            ELSE Metrics(prog, mamp_reg)
  /\ reports' = reports + 1
  /\ pc' = "idle"
  /\ passes' = passes + 1
  /\ mamp_reg' = NoStore
  /\ map' = <<>>
  /\ reads' = <<>>
  /\ is_valid_func' = TRUE
  /\ nfuncs' = 0
  /\ UNCHANGED <<execVars, poolVars, injectVars, reconVars, selectVars, prog, reg_count, reg_total, src, snap0, filename, nregs, export, entry, everHit,
                 func, raised, torn, old>>

NextFunc ==
  /\ export = <<>>
  /\ nfuncs < MaxFuncs
  /\ \E fns \in FileLists : Enter(fns)

NextRegion ==
  /\ export = <<>>
  /\ nregs < MaxRegions
  /\ \E r \in RegionsOK : Merge(r)

EndFunc ==
  /\ export = <<>>
  /\ Leave

EndPass ==
  /\ export = <<>>
  /\ Finish

Next == BeginPass \/ NextFunc \/ NextRegion \/ EndFunc \/ EndPass

Spec == Init /\ [][Next]_vars

----------------------------------------------------------------------------
(* The boundary resolver on every file content up to MaxLines lines: the   *)
(* cache fill  map[filename] = parse_file(filename)  applied to each file  *)

InitParse ==
  /\ prog \in Progs
  /\ src \in { [f \in Paths |-> IF f = FileIn THEN a
                               ELSE IF f = FileSib THEN b
                               ELSE <<CodeLine>>] :
                 a \in FileContents, b \in FileContents }
  /\ snapshot = Absent
  /\ snap0 = Absent
  /\ mamp_reg = NoStore
  /\ map = <<>>
  /\ filename = Empty
  /\ is_valid_func = TRUE
  /\ pc = "funcs"
  /\ passes = 0
  /\ nfuncs = 0
  /\ nregs = 0
  /\ out = <<>>
  /\ export = <<>>
  /\ entry = NoStore
  /\ everHit = {}
  /\ func = <<>>
  /\ raised = ""
  /\ reports = 0
  /\ torn = FALSE
  /\ old = snapshot
  /\ reg_count = 0
  /\ reg_total = 0
  /\ reads = <<>>
  /\ ExecIdle
  /\ PoolIdle
  /\ InjectIdle
  /\ ReconIdle
  /\ SelectIdle

Resolve(f) ==
  /\ pc = "funcs"
  /\ f \notin DOMAIN map
  /\ reads' = CountRead(reads, map, f)
  /\ LET limit == parse_file(prog, src[f])
     IN IF limit = -1
        THEN pc' = "crashed" /\ map' = map /\ raised' = "IndexError"
        ELSE pc' = pc /\ map' = Put(map, f, limit) /\ raised' = raised
  /\ UNCHANGED <<execVars, poolVars, injectVars, reconVars, selectVars, prog, reg_count, reg_total, src, snapshot, snap0, mamp_reg, filename, is_valid_func,
                 passes, nfuncs, nregs, out, export, entry, everHit, func,
                 reports, torn, old>>

NextParse == \E f \in Paths : Resolve(f)

SpecParse == InitParse /\ [][NextParse]_vars

----------------------------------------------------------------------------
(* One raw export merged repeatedly into a fresh store: base_4 runs a pass *)
(* per merge over the same cov_map.json; cov_select (rulf) first runs with *)
(* one target and then with two targets that yield the same export         *)

FuncRecords ==
  LET RegionLists == SeqsUpTo(RegionsOK, MaxRegions)
  IN
  { [filenames |-> fns, regions |-> rs] : fns \in FileLists, rs \in RegionLists }

\* an export of one function record, or of two with at most one region each
Exports ==
  LET ShortRecords == { fr \in FuncRecords : Len(fr.regions) <= 1 }
  IN
  { <<fr>> : fr \in FuncRecords } \cup { <<a, b>> : a \in ShortRecords, b \in ShortRecords }

InitTwice ==
  /\ prog \in {"base_4", "rulf"}
  /\ src \in Layouts
  /\ snapshot = Absent
  /\ snap0 = Absent
  /\ mamp_reg = NoStore
  /\ map = <<>>
  /\ filename = Empty
  /\ is_valid_func = TRUE
  /\ pc = "idle"
  /\ passes = 0
  /\ nfuncs = 0
  /\ nregs = 0
  /\ out = <<>>
  /\ export \in Exports
  /\ entry = NoStore
  /\ everHit = {}
  /\ func = <<>>
  /\ raised = ""
  /\ reports = 0
  /\ torn = FALSE
  /\ old = snapshot
  /\ reg_count = 0
  /\ reg_total = 0
  /\ reads = <<>>
  /\ ExecIdle
  /\ PoolIdle
  /\ InjectIdle
  /\ ReconIdle
  /\ SelectIdle

\* the function records the current pass reads
Needed == IF prog = "rulf" /\ passes >= 1 THEN 2 * Len(export) ELSE Len(export)

\* the function record being read
Current == export[((nfuncs - 1) % Len(export)) + 1]

FeedFunc ==
  /\ export # <<>>
  /\ nfuncs < Needed
  /\ Enter(export[(nfuncs % Len(export)) + 1].filenames)

FeedRegion ==
  /\ export # <<>>
  /\ pc = "regions"
  /\ nregs < Len(Current.regions)
  /\ Merge(Current.regions[nregs + 1])

FeedEnd ==
  /\ export # <<>>
  /\ pc = "regions"
  /\ nregs = Len(Current.regions)
  /\ Leave

EndRun ==
  /\ export # <<>>
  /\ nfuncs = Needed
  /\ Finish

NextTwice == BeginPass \/ FeedFunc \/ FeedRegion \/ FeedEnd \/ EndRun

SpecTwice == InitTwice /\ [][NextTwice]_vars

----------------------------------------------------------------------------
(* An export of two function records with one region each, the regions     *)
(* varying in start column, end line, count and kind (the last field of a  *)
(* region of llvm-cov export: code, expansion, skipped, gap)               *)

KeyRegions ==
  { <<1, sc, led, 1, count, kind>> :
      sc \in {1, 2}, led \in LineNos, count \in 0..MaxHit, kind \in {0, 1} }

KeyRecords ==
  { [filenames |-> <<f>>, regions |-> <<r>>] : f \in {FileIn, FileSib}, r \in KeyRegions }

InitKey ==
  /\ prog \in Progs
  /\ src \in Layouts
  /\ snapshot = Absent
  /\ snap0 = Absent
  /\ mamp_reg = NoStore
  /\ map = <<>>
  /\ filename = Empty
  /\ is_valid_func = TRUE
  /\ pc = "idle"
  /\ passes = 0
  /\ nfuncs = 0
  /\ nregs = 0
  /\ out = <<>>
  /\ export \in { <<a, b>> : a \in KeyRecords, b \in KeyRecords }
  /\ entry = NoStore
  /\ everHit = {}
  /\ func = <<>>
  /\ raised = ""
  /\ reports = 0
  /\ torn = FALSE
  /\ old = snapshot
  /\ reg_count = 0
  /\ reg_total = 0
  /\ reads = <<>>
  /\ ExecIdle
  /\ PoolIdle
  /\ InjectIdle
  /\ ReconIdle
  /\ SelectIdle

SpecKey == InitKey /\ [][NextTwice]_vars

----------------------------------------------------------------------------
(* cov_collect.py (rug-gpt): collect_result is called once on the export,   *)
(* starts from an empty store and keeps the running totals reg_total and   *)
(* reg_count                                                               *)

InitCount ==
  /\ prog = "cov_collect"
  /\ src \in Layouts
  /\ snapshot = Absent
  /\ snap0 = Absent
  /\ mamp_reg = NoStore
  /\ map = <<>>
  /\ filename = Empty
  /\ is_valid_func = TRUE
  /\ pc = "idle"
  /\ passes = 0
  /\ nfuncs = 0
  /\ nregs = 0
  /\ out = <<>>
  /\ export \in Exports
  /\ entry = NoStore
  /\ everHit = {}
  /\ func = <<>>
  /\ raised = ""
  /\ reports = 0
  /\ torn = FALSE
  /\ old = snapshot
  /\ reg_count = 0
  /\ reg_total = 0
  /\ reads = <<>>
  /\ ExecIdle
  /\ PoolIdle
  /\ InjectIdle
  /\ ReconIdle
  /\ SelectIdle

SpecCount == InitCount /\ [][NextTwice]_vars

----------------------------------------------------------------------------
(* An export of one function record of the project file with three        *)
(* regions, each before or behind the boundary, read by the collectors     *)
(* that leave the record at the first region behind the boundary           *)

InitPrefix ==
  LET PrefixRecords ==
        LET PrefixRegions == { r \in KeyRegions : r[6] = 0 }
        IN
        { [filenames |-> <<FileIn>>, regions |-> <<a, b, c>>] :
            a \in PrefixRegions, b \in PrefixRegions, c \in PrefixRegions }
  IN
  /\ prog \in {"base_4", "t18"}
  /\ src \in Layouts
  /\ snapshot = Absent
  /\ snap0 = Absent
  /\ mamp_reg = NoStore
  /\ map = <<>>
  /\ filename = Empty
  /\ is_valid_func = TRUE
  /\ pc = "idle"
  /\ passes = 0
  /\ nfuncs = 0
  /\ nregs = 0
  /\ out = <<>>
  /\ export \in { <<fr>> : fr \in PrefixRecords }
  /\ entry = NoStore
  /\ everHit = {}
  /\ func = <<>>
  /\ raised = ""
  /\ reports = 0
  /\ torn = FALSE
  /\ old = snapshot
  /\ reg_count = 0
  /\ reg_total = 0
  /\ reads = <<>>
  /\ ExecIdle
  /\ PoolIdle
  /\ InjectIdle
  /\ ReconIdle
  /\ SelectIdle

SpecPrefix == InitPrefix /\ [][NextTwice]_vars

----------------------------------------------------------------------------
(* The passes of one project as the file system sees them: the tools of a  *)
(* pass may exit nonzero, cov_map.json may have been left incomplete by an *)
(* earlier process, and  with open('cov_map.json', 'w') as fp:             *)
(* json.dump(mamp_reg, fp)  truncates the file, writes it piece by piece   *)
(* and closes it                                                           *)

InitRun ==
  /\ prog \in {"base_4", "t18"}
  /\ src \in Layouts
  /\ snapshot \in {Absent} \cup {OnDisk(s) : s \in SeedStores}
  /\ torn \in IF snapshot.exists THEN BOOLEAN ELSE {FALSE}
  /\ snap0 = snapshot
  /\ old = snapshot
  /\ reg_count = 0
  /\ reg_total = 0
  /\ reads = <<>>
  /\ mamp_reg = NoStore
  /\ map = <<>>
  /\ filename = Empty
  /\ is_valid_func = TRUE
  /\ pc = "idle"
  /\ passes = 0
  /\ nfuncs = 0
  /\ nregs = 0
  /\ out = <<>>
  /\ export = <<>>
  /\ entry = NoStore
  /\ everHit = {}
  /\ func = <<>>
  /\ raised = ""
  /\ reports = 0
  /\ ExecIdle
  /\ PoolIdle
  /\ InjectIdle
  /\ ReconIdle
  /\ SelectIdle

BeginRun ==
  \* the exit codes of llvm-profdata merge and llvm-cov export
  LET ToolOutcomes == {"ok", "merge_failed", "export_failed"}
  IN  \E res \in ToolOutcomes : Start(res)

\* the export of a pass holds one function record
RunFunc ==
  /\ nfuncs = 0
  /\ \E fns \in FileLists : Enter(fns)

\* open('cov_map.json', 'w'): the file is created or truncated
OpenSnapshot ==
  /\ pc = "funcs"
  /\ Persists(prog)
  /\ pc' = "persist"
  /\ snapshot' = [exists |-> TRUE, doc |-> {}]
  /\ torn' = TRUE
  /\ UNCHANGED <<execVars, poolVars, injectVars, reconVars, selectVars, prog, reg_count, reg_total, reads, src, mamp_reg, map, filename, is_valid_func, passes,
                 nfuncs, nregs, out, export, snap0, entry, everHit, func,
                 raised, reports, old>>

\* json.dump writes the document in pieces: one more member reaches the file
WriteMember ==
  /\ pc = "persist"
  /\ JsonDump(mamp_reg) \ snapshot.doc # {}
  /\ snapshot' = [snapshot EXCEPT
                    !.doc = @ \cup {CHOOSE m \in JsonDump(mamp_reg) \ @ : TRUE}]
  /\ UNCHANGED <<execVars, poolVars, injectVars, reconVars, selectVars, prog, reg_count, reg_total, reads, src, mamp_reg, map, filename, is_valid_func, pc, passes,
                 nfuncs, nregs, out, export, snap0, entry, everHit, func,
                 raised, reports, torn, old>>

\* the with block ends: what is left of the document is written and the
\* file is closed; then the metrics are printed
CloseSnapshot ==
  /\ pc = "persist"
  /\ snapshot' = OnDisk(mamp_reg)
  /\ torn' = FALSE
  /\ out' = Metrics(prog, mamp_reg)
  /\ reports' = reports + 1
  /\ pc' = "idle"
  /\ passes' = passes + 1
  /\ mamp_reg' = NoStore
  /\ map' = <<>>
  /\ reads' = <<>>
  /\ is_valid_func' = TRUE
  /\ nfuncs' = 0
  /\ UNCHANGED <<execVars, poolVars, injectVars, reconVars, selectVars, prog, reg_count, reg_total, src, snap0, filename, nregs, export, entry, everHit,
                 func, raised, old>>

NextRun ==
  BeginRun \/ RunFunc \/ NextRegion \/ EndFunc \/ OpenSnapshot \/ WriteMember
    \/ CloseSnapshot

SpecRun == InitRun /\ [][NextRun]_vars

----------------------------------------------------------------------------
(* The coordinators: execute_cov of base_4/main.py, of rug-gpt/            *)
(* cov_collect_pr.py ("pr") and of rustyunit_replay/main.py ("replay"),    *)
(* and the replay loop of cov_select ("rulf").  Each listed target is run  *)
(* as a process that writes its profile to LLVM_PROFILE_FILE when it       *)
(* exits; pr and replay run the target a second time over its corpus       *)
(* directory when that exists; in cov_select an entry of the queue is run  *)
(* when its name starts with 'id'                                          *)

MaxTargets == 2    \* targets listed by the test binaries (entries of the queue)

CovDir == <<"c", "o", "v", "/">>
ProfRaw == <<".", "p", "r", "o", "f", "r", "a", "w">>

\* collect_result is called inside the loop, after each target
CollectsPerTarget(c) == c = "pr"

InitExec ==
  LET Coords == {"base_4", "pr", "replay", "rulf"}
  IN
  /\ coord \in Coords
  /\ tars \in SeqsUpTo(BOOLEAN, MaxTargets)
  /\ ti = 0
  /\ epc = "next"
  /\ run = "none"
  /\ counter = 0
  /\ cov = <<>>
  /\ paths = <<>>
  /\ merged = {}
  /\ lost = {}
  /\ CollectIdle
  /\ PoolIdle
  /\ InjectIdle
  /\ ReconIdle
  /\ SelectIdle

\* subprocess.run('LLVM_PROFILE_FILE=... {} --test {}'): the process starts
Launch(kind) ==
  \* the file name given in LLVM_PROFILE_FILE (below HOME)
  LET ProfPath(c, k, n) ==
        IF c = "pr"
        THEN IF k = "test" THEN CovDir \o <<"c", "o", "v">> \o ProfRaw
             ELSE CovDir \o <<"c", "o", "v", "_", "f", "u", "z", "z">> \o ProfRaw
        ELSE IF c = "rulf" THEN CovDir \o Str(n) \o ProfRaw
        ELSE CovDir \o <<"c", "o", "v", "_">> \o Str(n) \o ProfRaw
  IN
  /\ counter' = counter + 1
  /\ paths' = Append(paths, ProfPath(coord, kind, counter + 1))
  /\ run' = "running"
  /\ epc' = kind
  /\ UNCHANGED <<collectVars, poolVars, injectVars, reconVars, selectVars, coord, tars, ti, cov, merged, lost>>

\* the head of the loop: the next target is run; cov_select counts an entry
\* of the queue whose name does not start with 'id' and passes it over
LaunchTest ==
  /\ epc = "next"
  /\ ti < Len(tars)
  /\ IF coord = "rulf" /\ ~tars[ti + 1]
     THEN /\ counter' = counter + 1
          /\ ti' = ti + 1
          /\ UNCHANGED <<collectVars, poolVars, injectVars, reconVars, selectVars, coord, tars, epc, run, cov, paths, merged, lost>>
     ELSE Launch("test")

\* os.path.exists(path) held: the target is run over its corpus
LaunchFuzz ==
  /\ epc = "corpus"
  /\ Launch("fuzz")

\* where execute_cov stands once the execution in flight is over
AfterRun ==
  \* the coordinator replays the corpus of a target
  LET ReplaysCorpus(c) == c \in {"pr", "replay"}
  IN
  IF epc = "test" /\ ReplaysCorpus(coord) /\ tars[ti + 1]
  THEN [epc |-> "corpus", ti |-> ti]
  ELSE IF CollectsPerTarget(coord) THEN [epc |-> "collect", ti |-> ti]
  ELSE [epc |-> "next", ti |-> ti + 1]

\* the process exits and its profile replaces what the path held
ExitRun ==
  /\ run = "running"
  /\ LET path == paths[Len(paths)]
     IN /\ lost' = IF path \in DOMAIN cov /\ cov[path] \notin merged
                   THEN lost \cup {cov[path]} ELSE lost
        /\ cov' = Put(cov, path, Len(paths))
  /\ run' = "none"
  /\ epc' = AfterRun.epc
  /\ ti' = AfterRun.ti
  /\ UNCHANGED <<collectVars, poolVars, injectVars, reconVars, selectVars, coord, tars, counter, paths, merged>>

\* the process never exits by itself
Hang ==
  /\ run = "running"
  /\ run' = "hung"
  /\ UNCHANGED <<collectVars, poolVars, injectVars, reconVars, selectVars, coord, tars, ti, epc, counter, cov, paths, merged, lost>>

\* timeout 2m kills the process: no profile is written
Timeout ==
  \* the command line starts with  timeout 2m
  LET HasTimeout(c) == c \in {"base_4", "pr", "replay"}
  IN
  /\ run \in {"running", "hung"}
  /\ HasTimeout(coord)
  /\ run' = "none"
  /\ epc' = AfterRun.epc
  /\ ti' = AfterRun.ti
  /\ UNCHANGED <<collectVars, poolVars, injectVars, reconVars, selectVars, coord, tars, counter, cov, paths, merged, lost>>

\* the loop is exhausted
EndLoop ==
  \* a merge follows the loop: collect_result in __main__, llvm-profdata in
  \* cov_select
  LET CollectsAtEnd(c) == c \in {"base_4", "replay", "rulf"}
  IN
  /\ epc = "next"
  /\ ti = Len(tars)
  /\ coord # ""
  /\ epc' = IF CollectsAtEnd(coord) THEN "collect" ELSE "done"
  /\ UNCHANGED <<collectVars, poolVars, injectVars, reconVars, selectVars, coord, tars, ti, run, counter, cov, paths, merged, lost>>

\* llvm-profdata merge -sparse cov/*
Collect ==
  /\ epc = "collect"
  /\ merged' = merged \cup {cov[x] : x \in DOMAIN cov}
  /\ IF CollectsPerTarget(coord)
     THEN epc' = "next" /\ ti' = ti + 1
     ELSE epc' = "done" /\ ti' = ti
  /\ UNCHANGED <<collectVars, poolVars, injectVars, reconVars, selectVars, coord, tars, run, counter, cov, paths, lost>>

NextExec ==
  LaunchTest \/ LaunchFuzz \/ ExitRun \/ Hang \/ Timeout \/ EndLoop \/ Collect

SpecExec == InitExec /\ [][NextExec]_vars

\* the operating system runs the processes and python runs the loop
SpecExecFair == SpecExec /\ WF_vars(NextExec)

----------------------------------------------------------------------------
(* cov_select(dir) of rulf/collect_cov.py over the targets of              *)
(* dir/fuzz/test_files, down to the merge of the profiles: per target      *)
(* rm -rf cov and mkdir cov in the working directory, then one replay per  *)
(* queue entry named id..., which writes dir/cov/<idx>.profraw when it     *)
(* exits normally, then llvm-profdata merge over dir/cov/*.  The export    *)
(* and the aggregation that follow are those of the collector "rulf".      *)

MaxQueue == 2      \* entries of the queue of one target

\* the directory of LLVM_PROFILE_FILE={dir}/cov/{idx}.profraw and of the
\* merge over {dir}/cov/*
ProfileDir(d) == d \o <<"/">> \o CovDir

InitSelect ==
  LET Queues == SeqsUpTo(BOOLEAN, MaxQueue)
      \* cov_select(os.getcwd()), and cov_select(sys.argv[1] + '/' + f) as called
      \* by __main__ with the working directory as sys.argv[1]
      SelectDirs == { Cwd, Cwd \o <<"/", "w">> }
  IN
  /\ dir \in SelectDirs
  /\ queues \in SeqsUpTo(Queues, MaxTargets)
  /\ tn = 0
  /\ qn = 0
  /\ idx = 0
  /\ spc = "clean"
  /\ fs = <<>>
  /\ mergedBy = <<>>
  /\ CollectIdle
  /\ ExecIdle
  /\ PoolIdle
  /\ InjectIdle
  /\ ReconIdle

\* the head of the loop over the targets: rm -rf cov, mkdir cov, idx = 0
Clean ==
  \* the directory  rm -rf cov  removes: relative to the working directory
  LET CleanedDir == Cwd \o <<"/">> \o CovDir
  IN
  /\ spc = "clean"
  /\ tn < Len(queues)
  /\ fs' = [x \in {y \in DOMAIN fs : ~StartsWith(y, CleanedDir)} |-> fs[x]]
  /\ idx' = 0
  /\ qn' = 0
  /\ spc' = "replay"
  /\ UNCHANGED <<collectVars, execVars, poolVars, injectVars, reconVars, dir, queues, tn, mergedBy>>

\* one iteration of the loop over the queue: idx is counted, an entry named
\* id... is replayed, and the replay writes its profile unless it is killed
ReplayEntry(wrote) ==
  LET ProfileFile(d, n) == ProfileDir(d) \o Str(n) \o ProfRaw
  IN
  /\ spc = "replay"
  /\ qn < Len(queues[tn + 1])
  /\ idx' = idx + 1
  /\ qn' = qn + 1
  /\ fs' = IF queues[tn + 1][qn + 1] /\ wrote
           THEN Put(fs, ProfileFile(dir, idx + 1), <<tn + 1, idx + 1>>)
           ELSE fs
  /\ UNCHANGED <<collectVars, execVars, poolVars, injectVars, reconVars, dir, queues, tn, spc, mergedBy>>

\* llvm-profdata merge -sparse {dir}/cov/* -o fuzz_cov.profdata
MergeProfiles ==
  /\ spc = "replay"
  /\ qn = Len(queues[tn + 1])
  /\ mergedBy' = Append(mergedBy,
                        { fs[x] : x \in {y \in DOMAIN fs : StartsWith(y, ProfileDir(dir))} })
  /\ tn' = tn + 1
  /\ spc' = IF tn + 1 = Len(queues) THEN "done" ELSE "clean"
  /\ UNCHANGED <<collectVars, execVars, poolVars, injectVars, reconVars, dir, queues, qn, idx, fs>>

NextSelect == Clean \/ (\E wrote \in BOOLEAN : ReplayEntry(wrote)) \/ MergeProfiles

SpecSelect == InitSelect /\ [][NextSelect]_vars

----------------------------------------------------------------------------
(* run_single of rug-gpt/t.py: the snapshot of the base run (ma) is        *)
(* reconciled into the snapshot of the rug run (mb) in memory, a key of ma *)
(* being translated by k.replace(rp, rs), and cover, total and the number  *)
(* of keys of ma missing in mb are printed                                 *)

rp == <<"/", "f", "u", "z", "z", "/", "l", "l", "m", "_", "b", "a", "s", "e", "_", "c", "o", "v", "/">>
rs == <<"/", "r", "u", "g", "/", "l", "l", "m", "_", "r", "u", "g", "_", "f", "i", "n", "a", "l", "_", "c", "o", "v", "/">>

RECURSIVE Replace(_, _, _)
\* Python: s.replace(o, n) for a nonempty o
Replace(s, o, n) ==
  IF Len(s) < Len(o) THEN s
  ELSE IF StartsWith(s, o) THEN n \o Replace(SubSeq(s, Len(o) + 1, Len(s)), o, n)
  ELSE <<s[1]>> \o Replace(Tail(s), o, n)

\* a source file below the base run's directory, the same file below the
\* rug run's directory
BaseFile == <<"/", "h">> \o rp \o <<"a">>
RugFile == <<"/", "h">> \o rs \o <<"a">>

\* the keys cov_map.json of the base run may hold: two regions of the file,
\* and a region recorded under the rug run's path
KeysA == { MakeKey(BaseFile, <<1, 1, 1, 1>>), MakeKey(BaseFile, <<1, 1, 2, 1>>),
           MakeKey(RugFile, <<1, 1, 1, 1>>) }

InitRecon ==
  LET StoresOver(K) == UNION { [D -> 0..MaxHit] : D \in SUBSET K }
      \* the keys cov_map.json of the rug run may hold
      KeysB == { MakeKey(RugFile, <<1, 1, 1, 1>>), MakeKey(RugFile, <<1, 1, 2, 1>>) }
  IN
  /\ disk1 \in {Absent} \cup { OnDisk(st) : st \in StoresOver(KeysA) }
  /\ disk2 \in {Absent} \cup { OnDisk(st) : st \in StoresOver(KeysB) }
  /\ ma = NoStore
  /\ mb = NoStore
  /\ ct = 0
  /\ seen = {}
  /\ rpc = "start"
  /\ printed = <<>>
  /\ CollectIdle
  /\ ExecIdle
  /\ PoolIdle
  /\ InjectIdle
  /\ SelectIdle

\* the two files are looked for and loaded
LoadBoth ==
  /\ rpc = "start"
  /\ IF ~disk1.exists \/ ~disk2.exists
     THEN /\ printed' = <<"missing">>
          /\ rpc' = "done"
          /\ UNCHANGED <<ma, mb>>
     ELSE /\ ma' = JsonLoad(disk1.doc)
          /\ mb' = JsonLoad(disk2.doc)
          /\ rpc' = "loop"
          /\ UNCHANGED printed
  /\ UNCHANGED <<collectVars, execVars, poolVars, injectVars, selectVars, disk1, disk2, ct, seen>>

\* the entry nk of mb is given the value 1 or 0 of the entry of ma
reconciled_copy(b, nk, v) == Put(b, nk, IF v # 0 THEN 1 ELSE 0)

\* if v != 0: mb[nk] = 1
reconciled(b, nk, v) == IF v # 0 THEN Put(b, nk, 1) ELSE b

\* one iteration of  for k, v in ma.items()
Reconcile(k) ==
  /\ rpc = "loop"
  /\ k \in DOMAIN ma \ seen
  /\ seen' = seen \cup {k}
  /\ LET nk == Replace(k, rp, rs)
     IN IF nk \in DOMAIN mb
        THEN mb' = reconciled(mb, nk, ma[k]) /\ ct' = ct
        ELSE mb' = mb /\ ct' = ct + 1
  /\ UNCHANGED <<collectVars, execVars, poolVars, injectVars, selectVars, disk1, disk2, ma, rpc, printed>>

\* print(tar, cover, total, ct)
Report ==
  /\ rpc = "loop"
  /\ seen = DOMAIN ma
  /\ printed' = <<Cardinality({k \in DOMAIN mb : mb[k] # 0}), Cardinality(DOMAIN mb), ct>>
  /\ rpc' = "done"
  /\ UNCHANGED <<collectVars, execVars, poolVars, injectVars, selectVars, disk1, disk2, ma, mb, ct, seen>>

NextRecon == LoadBoth \/ (\E k \in KeysA : Reconcile(k)) \/ Report

SpecRecon == InitRecon /\ [][NextRecon]_vars

----------------------------------------------------------------------------
(* The scripts of rug-gpt that inject generated tests into source files:   *)
(* run_each_target of base_uni_test.py and of rug_prompt.py (per crate and *)
(* target: request a test, append it to the target's file, run             *)
(* cargo test --no-run, keep it or restore the file and ask for a repair), *)
(* and apply of fsync_patch.py (append the collected tests to each file).  *)
(* The targets of a crate share one source file.                           *)

MaxCrates == 2       \* crates of the workspace (files of fsync_patch)
MaxAttempts == 4     \* calls of compile_run for one target the model follows

CloseLine == <<"}">>

\* the test the model answers with
LlmProgram == <<ModLine, CloseLine>>

\* for each line:  if 'mod tests' in l: l.replace('mod tests',
\* 'mod tests_llm_16_{}'.format(uid))
Rename(ls, u) ==
  LET LlmSuffix == <<"_", "l", "l", "m", "_", "1", "6", "_">>
  IN
  [i \in 1..Len(ls) |->
     IF Contains(ModTests, ls[i])
     THEN Replace(ls[i], ModTests, ModTests \o LlmSuffix \o Str(u))
     ELSE ls[i]]

RECURSIVE RugTests(_, _)
\* the strings apply appends for n tests, counter being u before the first
RugTests(u, n) ==
  \* test.replace('mod tests {', 'mod tests_rug_{} {{'.format(counter))
  LET RugSuffix == <<"_", "r", "u", "g", "_">>
      RenameRug(t, v) ==
        Replace(t, ModLine, ModTests \o RugSuffix \o Str(v) \o <<" ", "{">>)
      \* a collected test of run.log, one string
      RugTest == ModLine \o CloseLine
  IN
  IF n = 0 THEN <<>> ELSE <<RenameRug(RugTest, u + 1)>> \o RugTests(u + 1, n - 1)

\* my_counter = 3
Tries == 3

\* messages holds the system message and the prompt
FirstMessages == 2

\* the request of a repair adds the answer and the compiler's errors
RepairMessages == 2

\* if len(messages) > 3
RepairLimit == 3

\* uid is left as it is at the head of a target
NextUid_same(u) == u

\* uid += 1
NextUid(u) == u + 1

InitInject ==
  \* the crates have one target each or two each (the files one or two tests)
  LET TargetCounts == {1, 2}
      Tools == {"base_uni_test", "rug_prompt", "fsync_patch"}
  IN
  /\ tool \in Tools
  /\ pathDefined \in (IF tool = "rug_prompt" THEN BOOLEAN ELSE {TRUE})
  /\ ncrates \in 1..MaxCrates
  /\ ntargets \in TargetCounts
  /\ \E missing \in BOOLEAN :
       files = [c \in 1..ncrates |->
                  IF missing /\ c = 1 THEN [exists |-> FALSE, lines |-> <<>>]
                  ELSE [exists |-> TRUE, lines |-> <<CodeLine>>]]
  /\ verified = [c \in 1..ncrates |-> files[c].lines]
  /\ ci = 0
  /\ tj = 0
  /\ uid = 0
  /\ nmsgs = 0
  /\ my_counter = 0
  /\ answered = FALSE
  /\ ipc = "crate"
  /\ origins = <<>>
  /\ attempts = 0
  /\ CollectIdle
  /\ ExecIdle
  /\ PoolIdle
  /\ SelectIdle
  /\ ReconIdle

\* run_each_target is called for the next crate: uid = 0
StartCrate ==
  /\ tool \in {"base_uni_test", "rug_prompt"}
  /\ ipc = "crate"
  /\ ci < ncrates
  /\ uid' = 0
  /\ tj' = 0
  /\ ipc' = "target"
  /\ UNCHANGED <<collectVars, execVars, poolVars, selectVars, reconVars, tool,
                 pathDefined, ncrates, ntargets, files, ci, nmsgs, my_counter, answered,
                 origins, attempts, verified>>

\* the head of  for target, meta in targets.items()  down to the while loop
StartTarget ==
  /\ ipc = "target"
  /\ tj < ntargets
  /\ uid' = IF tool = "base_uni_test" THEN NextUid(uid) ELSE uid
  /\ nmsgs' = IF tool = "base_uni_test" THEN FirstMessages ELSE nmsgs
  /\ my_counter' = IF tool = "rug_prompt" THEN Tries ELSE my_counter
  /\ attempts' = 0
  /\ answered' = FALSE
  /\ ipc' = "request"
  /\ UNCHANGED <<collectVars, execVars, poolVars, selectVars, reconVars, tool,
                 pathDefined, ncrates, ntargets, files, ci, tj, origins, verified>>

\* the targets of the crate are exhausted: run_each_target returns
EndCrate ==
  /\ ipc = "target"
  /\ tj = ntargets
  /\ ci' = ci + 1
  /\ ipc' = "crate"
  /\ UNCHANGED <<collectVars, execVars, poolVars, selectVars, reconVars, tool,
                 pathDefined, ncrates, ntargets, files, tj, uid, nmsgs, my_counter,
                 answered, origins, attempts, verified>>

\* the crates are exhausted
EndInject ==
  /\ ipc = "crate"
  /\ ci = ncrates
  /\ ipc' = "done"
  /\ UNCHANGED <<collectVars, execVars, poolVars, selectVars, reconVars, tool,
                 pathDefined, ncrates, ntargets, files, ci, tj, uid, nmsgs,
                 my_counter, answered, origins, attempts, verified>>

\* base_uni_test.py: the request inside the while loop; res is the answer
\* ("ok"), the error of a prompt longer than the context ("context") or
\* another error ("error"), after which ans[target] is read all the same
RequestTest(res) ==
  /\ tool = "base_uni_test"
  /\ ipc = "request"
  /\ IF res = "ok" THEN answered' = TRUE /\ ipc' = "verify" /\ tj' = tj
     ELSE IF res = "context" THEN answered' = answered /\ ipc' = "target" /\ tj' = tj + 1
     ELSE IF answered THEN answered' = answered /\ ipc' = "verify" /\ tj' = tj
     ELSE \* KeyError: ans[target]
          answered' = answered /\ ipc' = "crashed" /\ tj' = tj
  /\ UNCHANGED <<collectVars, execVars, poolVars, selectVars, reconVars, tool,
                 pathDefined, ncrates, ntargets, files, ci, uid, nmsgs, my_counter,
                 origins, attempts, verified>>

\* base_uni_test.py: the answer is renamed; a missing file starts the while
\* loop again, otherwise the file is rewritten with the answer appended and
\* cargo test --no-run is started
Verify ==
  /\ tool = "base_uni_test"
  /\ ipc = "verify"
  /\ IF ~files[ci + 1].exists
     THEN /\ ipc' = "request"
          /\ UNCHANGED <<files, origins, attempts>>
     ELSE /\ origins' = files[ci + 1].lines
          /\ files' = [files EXCEPT ![ci + 1].lines = @ \o Rename(LlmProgram, uid)]
          /\ attempts' = attempts + 1
          /\ ipc' = "compile"
  /\ UNCHANGED <<collectVars, execVars, poolVars, selectVars, reconVars, tool,
                 pathDefined, ncrates, ntargets, ci, tj, uid, nmsgs, my_counter, answered,
                 verified>>

\* rug_prompt.py: the request inside the while loop and compile_run down to
\* the start of cargo test --no-run; an error other than "context" repeats
\* the request
RequestRug(res) ==
  /\ tool = "rug_prompt"
  /\ ipc = "request"
  /\ IF res = "context"
     THEN /\ ipc' = "target"
          /\ tj' = tj + 1
          /\ UNCHANGED <<uid, attempts, files, origins>>
     ELSE /\ res = "ok"
          /\ attempts < MaxAttempts
          /\ uid' = NextUid(uid)
          /\ attempts' = attempts + 1
          /\ tj' = tj
          /\ IF ~files[ci + 1].exists
             THEN \* return (False, -1, code, None): neither branch of the caller
                  /\ ipc' = "request"
                  /\ UNCHANGED <<files, origins>>
             ELSE /\ origins' = files[ci + 1].lines
                  /\ files' = [files EXCEPT ![ci + 1].lines =
                                 @ \o (IF my_counter = Tries
                                       THEN Rename(LlmProgram, uid + 1)
                                       ELSE LlmProgram)]
                  /\ ipc' = "compile"
  /\ UNCHANGED <<collectVars, execVars, poolVars, selectVars, reconVars, tool,
                 pathDefined, ncrates, ntargets, ci, nmsgs, my_counter, answered, verified>>

\* cargo test --no-run has exited with returncode 0 (ok) or not; in
\* rug_prompt.py  cwd=fd+'/'+path  raises NameError before the command runs
\* when path was never assigned, and the while loop catches it
Compiled(ok) ==
  /\ ipc = "compile"
  /\ IF tool = "rug_prompt" /\ ~pathDefined
     THEN /\ ipc' = "request"
          /\ UNCHANGED <<files, tj, nmsgs, my_counter, answered, verified>>
     ELSE IF ok
     THEN /\ ipc' = "target"
          /\ tj' = tj + 1
          /\ verified' = [verified EXCEPT ![ci + 1] = files[ci + 1].lines]
          /\ answered' = (answered \/ tool = "rug_prompt")
          /\ UNCHANGED <<files, nmsgs, my_counter>>
     ELSE /\ files' = [files EXCEPT ![ci + 1].lines = origins]
          /\ answered' = (answered \/ tool = "rug_prompt")
          /\ UNCHANGED verified
          /\ IF tool = "base_uni_test"
             THEN IF nmsgs > RepairLimit
                  THEN ipc' = "target" /\ tj' = tj + 1 /\ UNCHANGED <<nmsgs, my_counter>>
                  ELSE /\ ipc' = "request"
                       /\ nmsgs' = nmsgs + RepairMessages
                       /\ UNCHANGED <<tj, my_counter>>
             ELSE IF my_counter - 1 = 0
                  THEN /\ ipc' = "target"
                       /\ tj' = tj + 1
                       /\ my_counter' = my_counter - 1
                       /\ UNCHANGED nmsgs
                  ELSE /\ ipc' = "request"
                       /\ my_counter' = my_counter - 1
                       /\ UNCHANGED <<tj, nmsgs>>
  /\ UNCHANGED <<collectVars, execVars, poolVars, selectVars, reconVars, tool,
                 pathDefined, ncrates, ntargets, ci, uid, origins, attempts>>

\* fsync_patch.py: one iteration of  for f, tests in ans.items();  open
\* raises when the file does not exist
ApplyFile ==
  /\ tool = "fsync_patch"
  /\ ipc = "crate"
  /\ ci < ncrates
  /\ IF ~files[ci + 1].exists
     THEN /\ ipc' = "crashed"
          /\ UNCHANGED <<files, ci, uid>>
     ELSE /\ files' = [files EXCEPT ![ci + 1].lines = @ \o RugTests(uid, ntargets)]
          /\ uid' = uid + ntargets
          /\ ci' = ci + 1
          /\ ipc' = ipc
  /\ UNCHANGED <<collectVars, execVars, poolVars, selectVars, reconVars, tool,
                 pathDefined, ncrates, ntargets, tj, nmsgs, my_counter, answered, origins,
                 attempts, verified>>

LlmOutcomes == {"ok", "context", "error"}

NextInject ==
  \/ StartCrate
  \/ StartTarget
  \/ EndCrate
  \/ EndInject
  \/ \E res \in LlmOutcomes : RequestTest(res)
  \/ Verify
  \/ \E res \in LlmOutcomes : RequestRug(res)
  \/ \E ok \in BOOLEAN : Compiled(ok)
  \/ ApplyFile

SpecInject == InitInject /\ [][NextInject]_vars

\* python runs the loops, and every request and every compilation returns
SpecInjectFair == SpecInject /\ WF_vars(NextInject)

----------------------------------------------------------------------------
(* The parallel driver of base_4/main.py: multiprocessing.Pool over the    *)
(* directories of '.', each worker running run_single(fd), which starts    *)
(* the child  python3.10 -u main.py fd;  the child changes into fd and     *)
(* runs one pass per flag, each pass writing cov_map.json of its working   *)
(* directory unless it returns early, or ending the child with an          *)
(* exception                                                               *)

MaxWorkers == 2    \* processes of the pool
MaxProjects == 3   \* directories of '.'

Workers == 1..MaxWorkers

\* os.listdir('.'): distinct names
Projects == { <<"d">> \o Str(i) : i \in 1..MaxProjects }

SnapshotName == <<"c", "o", "v", "_", "m", "a", "p", ".", "j", "s", "o", "n">>

\* the child writes 'cov_map.json' of the driver's directory: no os.chdir(fd)
SnapshotPath_nochdir(fd) == SnapshotName

\* 'cov_map.json' after os.chdir(fd), relative to the driver's directory
SnapshotPath(fd) == fd \o <<"/">> \o SnapshotName

\* subprocess.run(..., check=True): a nonzero exit of the child raises in
\* the worker
RunChecks_true == TRUE

\* run_single calls subprocess.run without check: the exit code of the child
\* is dropped
RunChecks == FALSE

NoChild == [fd |-> <<>>, at |-> "idle", left |-> 0]

InitPool ==
  /\ driver = "map"
  /\ todo = Projects
  /\ worker = [w \in Workers |-> NoChild]
  /\ status = [fd \in Projects |-> "todo"]
  /\ disk = [x \in {SnapshotPath(fd) : fd \in Projects} |-> [writes |-> 0, open |-> FALSE]]
  /\ CollectIdle
  /\ ExecIdle
  /\ InjectIdle
  /\ ReconIdle
  /\ SelectIdle

\* a free worker takes a directory and starts the child
Dispatch(w, fd) ==
  LET Flags == <<"", "-C debug-assertions=off">>
  IN
  /\ driver = "map"
  /\ worker[w].at = "idle"
  /\ fd \in todo
  /\ todo' = todo \ {fd}
  /\ worker' = [worker EXCEPT ![w] = [fd |-> fd, at |-> "pass", left |-> Len(Flags)]]
  /\ status' = [status EXCEPT ![fd] = "running"]
  /\ UNCHANGED <<collectVars, execVars, injectVars, reconVars, selectVars, driver, disk>>

\* len(binary) = 0, or collect_result returns at the failed profile merge
SkipPass(w) ==
  /\ worker[w].at = "pass"
  /\ worker[w].left > 0
  /\ worker' = [worker EXCEPT ![w].left = @ - 1]
  /\ UNCHANGED <<collectVars, execVars, injectVars, reconVars, selectVars, driver, todo, status, disk>>

\* open('cov_map.json', 'w') in the child
OpenWrite(w) ==
  /\ worker[w].at = "pass"
  /\ worker[w].left > 0
  /\ worker' = [worker EXCEPT ![w].at = "write"]
  /\ disk' = [disk EXCEPT ![SnapshotPath(worker[w].fd)].open = TRUE]
  /\ UNCHANGED <<collectVars, execVars, injectVars, reconVars, selectVars, driver, todo, status>>

\* the with block ends in the child
CloseWrite(w) ==
  /\ worker[w].at = "write"
  /\ worker' = [worker EXCEPT ![w].at = "pass", ![w].left = @ - 1]
  /\ disk' = [disk EXCEPT ![SnapshotPath(worker[w].fd)] =
                            [writes |-> @.writes + 1, open |-> FALSE]]
  /\ UNCHANGED <<collectVars, execVars, injectVars, reconVars, selectVars, driver, todo, status>>

\* the child ends with an exception (exit code 1): subprocess.run returns
\* and so does run_single
ChildCrash(w) ==
  /\ worker[w].at = "pass"
  /\ worker[w].left > 0
  /\ IF RunChecks
     THEN \* CalledProcessError reaches p.map; the pool is terminated
          /\ driver' = "raised"
          /\ status' = [fd \in Projects |->
                          IF fd = worker[w].fd THEN "crashed"
                          ELSE IF status[fd] = "running" THEN "killed"
                          ELSE status[fd]]
          /\ worker' = [x \in Workers |-> NoChild]
     ELSE /\ status' = [status EXCEPT ![worker[w].fd] = "crashed"]
          /\ worker' = [worker EXCEPT ![w] = NoChild]
          /\ UNCHANGED driver
  /\ UNCHANGED <<collectVars, execVars, injectVars, reconVars, selectVars, todo, disk>>

\* the loops of the child are exhausted
ChildExit(w) ==
  /\ worker[w].at = "pass"
  /\ worker[w].left = 0
  /\ status' = [status EXCEPT ![worker[w].fd] = "completed"]
  /\ worker' = [worker EXCEPT ![w] = NoChild]
  /\ UNCHANGED <<collectVars, execVars, injectVars, reconVars, selectVars, driver, todo, disk>>

\* p.map returns when every directory was handed out and every worker is
\* free again
MapReturns ==
  /\ driver = "map"
  /\ todo = {}
  /\ \A w \in Workers : worker[w].at = "idle"
  /\ driver' = "done"
  /\ UNCHANGED <<collectVars, execVars, injectVars, reconVars, selectVars, todo, worker, status, disk>>

NextPool ==
  \/ \E w \in Workers : \E fd \in Projects : Dispatch(w, fd)
  \/ \E w \in Workers : SkipPass(w)
  \/ \E w \in Workers : OpenWrite(w)
  \/ \E w \in Workers : CloseWrite(w)
  \/ \E w \in Workers : ChildCrash(w)
  \/ \E w \in Workers : ChildExit(w)
  \/ MapReturns

SpecPool == InitPool /\ [][NextPool]_vars

----------------------------------------------------------------------------
(* Reading a key back: the last four fields are the coordinates, what      *)
(* precedes them is the file path                                          *)

LastSlash(t) == CHOOSE i \in 1..Len(t) : t[i] = "/" /\ \A j \in (i + 1)..Len(t) : t[j] # "/"
DropLast(t) == SubSeq(t, 1, LastSlash(t) - 1)

KeyFile(k) == DropLast(DropLast(DropLast(DropLast(k))))
KeyEndLine(k) ==
  LET LastField(t) == SubSeq(t, LastSlash(t) + 1, Len(t))
  IN  ParseInt(LastField(DropLast(k)))

\* the file lies in the directory tree of the project root
Rooted(f) == StartsWith(f, Cwd \o <<"/">>)

MarkerLines(p, ls) == { i \in 1..Len(ls) : HasMarker(p, ls[i]) }
FirstMarker(p, ls) == CHOOSE i \in MarkerLines(p, ls) : \A j \in MarkerLines(p, ls) : i <= j

SnapKeys(snap) == { m[1] : m \in snap.doc }
SnapVal(snap, k) == ParseInt((CHOOSE m \in snap.doc : m[1] = k)[2])

Count(p, v) == IF p = "rulf" THEN v[2] ELSE v

----------------------------------------------------------------------------
(* Claims *)

C2_WholeFunctionDiscard ==
  [][(prog = "base_4" /\ pc = "regions" /\ ~is_valid_func')
       => mamp_reg' = entry]_vars

\* C3: starting from an absent snapshot, no key of the store or of the
\* persisted snapshot has an end line beyond the boundary parse_file returns
\* for the key's file.
C3_NoKeyBeyondBoundary ==
  snap0 = Absent =>
    \A k \in (DOMAIN mamp_reg) \cup SnapKeys(snapshot) :
      KeyEndLine(k) <= parse_file(prog, src[KeyFile(k)])

C3_Witness ==
  /\ snap0 = Absent /\ prog = "base_4" /\ passes = 1 /\ pc = "funcs"
  /\ ~is_valid_func
  /\ SnapKeys(snapshot) # {}
  /\ DOMAIN mamp_reg # SnapKeys(snapshot)

\* C4: no key of the store belongs to a file outside the directory tree of
\* the project root.
C4_OnlyRootedFiles ==
  \A k \in DOMAIN mamp_reg : Rooted(KeyFile(k))

\* C5: a merge step never removes a key, never turns a covered entry
\* uncovered, never lowers a count, and lowers neither metric.
C5_Monotonic ==
  [][(pc \in {"funcs", "regions"} /\ pc' \in {"funcs", "regions"}) =>
       /\ \A k \in DOMAIN mamp_reg :
            /\ k \in DOMAIN mamp_reg'
            /\ Covered(prog, mamp_reg[k]) => Covered(prog, mamp_reg'[k])
            /\ Count(prog, mamp_reg'[k]) >= Count(prog, mamp_reg[k])
       /\ Metrics(prog, mamp_reg')[1] >= Metrics(prog, mamp_reg)[1]
       /\ Metrics(prog, mamp_reg')[2] >= Metrics(prog, mamp_reg)[2]]_vars

C5_Witness ==
  /\ prog = "base_4" /\ pc = "regions" /\ nfuncs = 2 /\ nregs = 1 /\ passes = 1
  /\ snap0 # Absent
  /\ \E k \in DOMAIN mamp_reg : mamp_reg[k] = 1 /\ k \notin everHit
  /\ \E k \in DOMAIN mamp_reg : mamp_reg[k] = 0
  /\ everHit # {}

\* C6: the metrics printed after the same export was merged a second time
\* into a store that started fresh equal those printed after the first merge.
C6_IdempotentMetrics ==
  [][(passes = 1 /\ passes' = 2) => out' = out]_vars

C6_Witness ==
  /\ prog = "rulf" /\ passes = 2 /\ out[1] >= 1 /\ out[2] > out[1]

\* C7: in count mode, merging the same export again does not raise the
\* accumulated count of any key.
C7_NoDoubleCount ==
  [][(prog = "rulf" /\ passes = 1 /\ pc = "regions" /\ pc' = "regions"
        /\ nfuncs > Len(export))
       => \A k \in DOMAIN mamp_reg :
            k \in DOMAIN mamp_reg' /\ mamp_reg'[k][2] = mamp_reg[k][2]]_vars

\* C8: in boolean mode an entry is covered exactly when the rehydrated
\* snapshot had it covered or a merged record of its key had a count > 0.
C8_BooleanMerge ==
  prog = "base_4" =>
    /\ pc \in {"funcs", "regions"} =>
         \A k \in DOMAIN mamp_reg :
           mamp_reg[k] # 0 <=>
             \/ k \in SnapKeys(snap0) /\ SnapVal(snap0, k) # 0
             \/ k \in everHit
    /\ pc = "idle" =>
         \A k \in SnapKeys(snapshot) :
           SnapVal(snapshot, k) # 0 <=>
             \/ k \in SnapKeys(snap0) /\ SnapVal(snap0, k) # 0
             \/ k \in everHit

C8_Witness ==
  /\ prog = "base_4" /\ pc = "idle" /\ passes = 2
  /\ \E k \in SnapKeys(snapshot) : SnapVal(snapshot, k) = 0
  /\ \E k \in SnapKeys(snapshot) : k \in everHit
  /\ \E k \in SnapKeys(snapshot) : SnapVal(snapshot, k) = 1 /\ k \notin everHit

\* C9 (as stated): in every collector that writes a snapshot, a key present
\* (covered) in the snapshot is present (covered) after every later step.
C9_EveryCollectorKeeps ==
  [][(Persists(prog) /\ snapshot.exists) =>
       /\ snapshot'.exists
       /\ \A k \in SnapKeys(snapshot) :
            /\ k \in SnapKeys(snapshot')
            /\ SnapVal(snapshot, k) # 0 => SnapVal(snapshot', k) # 0]_vars

\* C9 (amended): in base_4, the collector that rehydrates cov_map.json, a key
\* present (covered) in the snapshot is present (covered) after every later
\* step.
C9_RehydratingCollectorKeeps ==
  [][(prog = "base_4" /\ snapshot.exists) =>
       /\ snapshot'.exists
       /\ \A k \in SnapKeys(snapshot) :
            /\ k \in SnapKeys(snapshot')
            /\ SnapVal(snapshot, k) # 0 => SnapVal(snapshot', k) # 0]_vars

C9_Witness ==
  /\ prog = "base_4" /\ passes = 2 /\ pc = "idle"
  /\ snap0 # Absent
  /\ SnapKeys(snap0) # SnapKeys(snapshot)
  /\ \E k \in SnapKeys(snap0) : SnapVal(snapshot, k) = 0

\* C10: the snapshot a pass writes loads back as the store that was written,
\* and a loaded snapshot written again is the document that was loaded.
C10_RoundTrip ==
  [][/\ (pc = "funcs" /\ pc' = "idle" /\ Persists(prog)) =>
          /\ snapshot'.exists
          /\ JsonLoad(snapshot'.doc) = mamp_reg
          /\ JsonLoad(JsonDump(JsonLoad(snapshot'.doc))) = JsonLoad(snapshot'.doc)
     /\ (pc = "idle" /\ pc' = "funcs" /\ prog = "base_4" /\ snapshot.exists) =>
          JsonDump(mamp_reg') = snapshot.doc]_vars

C10_Witness ==
  /\ prog = "base_4" /\ pc = "idle" /\ passes = 2
  /\ Cardinality(SnapKeys(snapshot)) >= 3
  /\ \E k \in SnapKeys(snapshot) : SnapVal(snapshot, k) = 0
  /\ \E k \in SnapKeys(snapshot) : SnapVal(snapshot, k) = 1

\* C11: while a pass is persisting the snapshot, cov_map.json holds the
\* complete snapshot of before the pass or the complete new one.
C11_AtomicPersist ==
  pc = "persist" => (~torn /\ snapshot \in {old, OnDisk(mamp_reg)})

\* C12: a pass of base_4 that finds cov_map.json unparseable does not go on
\* to the function records: it ends with an exception (or returned before
\* the load because the profile merge failed), and the file is left as it
\* was.
C12_CorruptSnapshotFatal ==
  [][(prog = "base_4" /\ pc = "idle" /\ snapshot.exists /\ torn) =>
       /\ pc' # "funcs"
       /\ snapshot' = snapshot
       /\ torn'
       /\ mamp_reg' = mamp_reg
       /\ passes' = passes =>
            (pc' = "crashed" /\ raised' \in {"JSONDecodeError", "AssertionError"})]_vars

C12_Witness ==
  /\ prog = "base_4" /\ pc = "crashed" /\ raised = "JSONDecodeError"
  /\ passes = 1 /\ torn /\ snapshot = snap0 /\ snapshot.doc # {}

\* C13: a pass of base_4 whose raw export cannot be produced (llvm-profdata merge or
\* llvm-cov export exits nonzero) leaves cov_map.json as it was and the
\* process goes on to the next crate/flag pass.
C13_ExportFailureIsolated ==
  [][(prog = "base_4" /\ pc = "idle" /\ pc' # "funcs"
        /\ raised' # "JSONDecodeError") =>
       /\ pc' = "idle"
       /\ passes' = passes + 1
       /\ snapshot' = snapshot]_vars

\* C14: every pass that returned has printed a pair reg_count, reg_total.
C14_MetricsAlwaysReported ==
  pc = "idle" => reports = passes

\* C15: a function record that names more than one file ends the pass with
\* the assertion error, and cov_map.json is as it was when the pass started.
C15_MultiFileRejected ==
  Len(func) > 1 =>
    (pc = "crashed" /\ raised = "AssertionError" /\ snapshot = old)

C15_Witness ==
  /\ prog = "base_4" /\ pc = "crashed" /\ Len(func) = 2
  /\ passes = 1 /\ reports = 1 /\ snapshot.exists /\ ~torn
  /\ snapshot # snap0

\* what the claim takes for the identity of a region: file path, start
\* line, start column, end line, end column and the discriminator
Identity(f, r) == <<f, r[1], r[2], r[3], r[4], r[6]>>

\* C16: two regions merged into the store share an entry exactly when they
\* agree on file path, start line, start column, end line, end column and
\* the discriminator.
C16_RegionIdentity ==
  (passes = 0 /\ pc = "funcs" /\ nfuncs = Len(export)
     /\ \A i \in 1..Len(export) :
          export[i].regions[1][3] <= parse_file(prog, src[export[i].filenames[1]])) =>
    \A i, j \in 1..Len(export) :
      LET fi == export[i].filenames[1]
          fj == export[j].filenames[1]
          ri == export[i].regions[1]
          rj == export[j].regions[1]
      IN /\ MakeKey(fi, ri) \in DOMAIN mamp_reg
         /\ MakeKey(fj, rj) \in DOMAIN mamp_reg
         /\ (MakeKey(fi, ri) = MakeKey(fj, rj)) <=> (Identity(fi, ri) = Identity(fj, rj))

\* C17: within one execute_cov run no two executions are given the same
\* profile path, and no profile is overwritten before it was merged.
C17_ExecutionIsolation ==
  /\ \A a, b \in 1..Len(paths) : a # b => paths[a] # paths[b]
  /\ lost = {}

\* C20: every execution a coordinator launches is bounded by a timeout, so
\* the coordinator reaches the merge of the profiles (or its end) whatever
\* the executed targets do.
C20_BoundedExecutions ==
  <>(epc \in {"collect", "done"})

\* C18: no two workers of the pool have the same snapshot path open for
\* writing at the same time, and a snapshot path is open in at most one
\* child, the one of its project.
C18_NoConcurrentWriters ==
  /\ \A a, b \in DOMAIN worker :
       (a # b /\ worker[a].at = "write" /\ worker[b].at = "write") =>
         SnapshotPath(worker[a].fd) # SnapshotPath(worker[b].fd)
  /\ \A a, b \in DOMAIN worker :
       (a # b /\ worker[a].at # "idle" /\ worker[b].at # "idle") =>
         worker[a].fd # worker[b].fd

C18_Witness ==
  /\ driver = "map"
  /\ \E a, b \in DOMAIN worker :
       /\ a # b /\ worker[a].at = "write" /\ worker[b].at = "write"
       /\ disk[SnapshotPath(worker[a].fd)].writes = 1

\* C19: the step in which the child of one project ends with an exception
\* leaves the children, the states and the snapshots of the other projects
\* as they were; no project is ever killed; and when the driver is done every
\* project has completed or crashed.
C19_FailureIsolation ==
  [][/\ \A fd \in DOMAIN status :
          (status[fd] = "running" /\ status'[fd] = "crashed") =>
            /\ \A o \in DOMAIN status \ {fd} :
                 /\ status'[o] = status[o]
                 /\ disk'[SnapshotPath(o)] = disk[SnapshotPath(o)]
            /\ \A w \in DOMAIN worker :
                 worker[w].fd # fd => worker'[w] = worker[w]
            /\ driver' = driver
     /\ \A fd \in DOMAIN status' : status'[fd] # "killed"
     /\ driver' # "raised"
     /\ driver' = "done" =>
          \A fd \in DOMAIN status' : status'[fd] \in {"completed", "crashed"}]_vars

C19_Witness ==
  /\ driver = "done"
  /\ \E fd \in DOMAIN status : status[fd] = "crashed" /\ disk[SnapshotPath(fd)].writes = 1
  /\ \E fd \in DOMAIN status : status[fd] = "completed" /\ disk[SnapshotPath(fd)].writes = 2

\* C21: within one aggregation pass parse_file reads a file at most once
\* (map holds the value from then on and no step of the pass changes it), and
\* every region of the file is filtered against the value of that one read.
C21_BoundaryCache ==
  [][ /\ \A f \in DOMAIN reads' : reads'[f] <= 1
      /\ (pc \in {"funcs", "regions"} /\ pc' # "idle")
           => \A f \in DOMAIN map : f \in DOMAIN map' /\ map'[f] = map[f]
      /\ pc' = "regions"
           => /\ filename' \in DOMAIN map'
              /\ filename' \in DOMAIN reads'
              /\ map'[filename'] = parse_file(prog', src'[filename']) ]_vars

\* the second function record of a file is being filtered in one pass
C21_Witness ==
  /\ prog = "base_4"
  /\ Len(export) = 2
  /\ export[1].filenames = <<FileIn>>
  /\ export[2].filenames = <<FileIn>>
  /\ Len(export[1].regions) = 1
  /\ nfuncs = 2
  /\ pc = "regions"
  /\ nregs = 1
  /\ reads = Put(<<>>, FileIn, 1)

\* C22: in collect_result of cov_collect.py a region key reported more than
\* once in one export is counted once in reg_total, and it is counted in
\* reg_count if any of its merged reports has count > 0, whatever the order
\* of the reports.
C22_CountedOnceCoveredIfAny ==
  (prog = "cov_collect" /\ pc \in {"funcs", "regions"})
    => /\ reg_total = Cardinality(DOMAIN mamp_reg)
       /\ reg_count = Cardinality(everHit)

\* C23: when the loop over the regions of a function record meets the first
\* region that ends behind the boundary, base_4 and rusty-unit-18 leave the
\* record: the regions listed before it are in the store (covered when their
\* count is > 0), the region itself is not merged, and no region listed
\* after it is merged, in bound or not.
C23_PrefixAtBoundary ==
  [][ ( /\ prog \in {"base_4", "t18"}
        /\ pc = "regions"
        /\ nregs < Len(Current.regions)
        /\ Current.regions[nregs + 1][3] > map[filename] )
      => /\ pc' = "funcs"
         /\ nregs' = 0
         /\ mamp_reg' = mamp_reg
         /\ DOMAIN mamp_reg' =
              DOMAIN entry \cup { MakeKey(filename, Current.regions[i]) : i \in 1..nregs }
         /\ \A i \in 1..nregs :
              Current.regions[i][5] > 0
                => Covered(prog, mamp_reg'[MakeKey(filename, Current.regions[i])])
         /\ \A i \in (nregs + 1)..Len(Current.regions) :
              MakeKey(filename, Current.regions[i]) \notin DOMAIN entry
                => ( \/ MakeKey(filename, Current.regions[i]) \notin DOMAIN mamp_reg'
                     \/ \E j \in 1..nregs :
                          MakeKey(filename, Current.regions[j])
                            = MakeKey(filename, Current.regions[i]) ) ]_vars

\* a record listing a region before the boundary, one behind it and another
\* one before it has been left with the first region only in the store
C23_Witness ==
  /\ prog = "t18"
  /\ src[FileIn] = TestsFirst
  /\ passes = 0
  /\ pc = "funcs"
  /\ nfuncs = 1
  /\ export[1].regions[1] = <<1, 1, 1, 1, 1, 0>>
  /\ export[1].regions[2] = <<1, 1, 2, 1, 1, 0>>
  /\ export[1].regions[3] = <<1, 2, 1, 1, 1, 0>>
  /\ DOMAIN mamp_reg = {MakeKey(FileIn, <<1, 1, 1, 1>>)}

\* C30: a function record whose filenames list is empty passes the assertion
\* on the number of files and is skipped: the store is unchanged, nothing is
\* raised and the pass goes on with the next record.
C30_EmptyRecordSkipped ==
  [][ ( /\ prog = "base_4"
        /\ pc = "funcs"
        /\ nfuncs' = nfuncs + 1
        /\ Len(export[(nfuncs % Len(export)) + 1].filenames) = 0 )
      => /\ pc' = "funcs"
         /\ raised' = ""
         /\ mamp_reg' = mamp_reg ]_vars

\* C27: the profiles merged for a target of cov_select are those written by
\* that target's own replays, and the profiles of earlier targets are gone
\* from the profile directory when the target's replays start.
C27_OwnProfilesOnly ==
  /\ \A t \in DOMAIN mergedBy : \A a \in mergedBy[t] : a[1] = t
  /\ (spc = "replay" /\ qn = 0)
       => \A x \in DOMAIN fs : ~StartsWith(x, ProfileDir(dir))

\* C28: reconciling snapshot A into snapshot B (run_single of rug-gpt/t.py)
\* never adds or removes a key of B and never turns a covered entry of B
\* uncovered; at the end a key of B is covered exactly when it was covered in
\* B or a key of A that translates to it is nonzero, and the printed missing
\* count is the number of keys of A whose translation is not a key of B.
C28_Reconciliation ==
  rpc \in {"loop", "done"} /\ printed # <<"missing">>
    => LET b0 == JsonLoad(disk2.doc)
           a0 == JsonLoad(disk1.doc)
       IN /\ DOMAIN mb = DOMAIN b0
          /\ \A k \in DOMAIN b0 : b0[k] # 0 => mb[k] # 0
          /\ rpc = "done"
               => /\ \A k \in DOMAIN mb :
                       mb[k] # 0 <=> ( \/ b0[k] # 0
                                       \/ \E j \in DOMAIN a0 :
                                            Replace(j, rp, rs) = k /\ a0[j] # 0 )
                  /\ printed[3] =
                       Cardinality({ j \in DOMAIN a0 : Replace(j, rp, rs) \notin DOMAIN b0 })

\* the reconciliation has covered a key of B from one of its two counterparts
\* in A, the other being 0, and counted a key of A that B does not hold
C28_Witness ==
  /\ rpc = "done"
  /\ printed = <<1, 1, 1>>
  /\ JsonLoad(disk2.doc) = Put(NoStore, MakeKey(RugFile, <<1, 1, 1, 1>>), 0)
  /\ DOMAIN ma = {MakeKey(BaseFile, <<1, 1, 1, 1>>), MakeKey(BaseFile, <<1, 1, 2, 1>>),
                  MakeKey(RugFile, <<1, 1, 1, 1>>)}
  /\ ma[MakeKey(BaseFile, <<1, 1, 1, 1>>)] = 1
  /\ ma[MakeKey(RugFile, <<1, 1, 1, 1>>)] = 0

\* C24: injection is all-or-nothing in base_uni_test.py and rug_prompt.py:
\* between two attempts the file of a target holds its original lines and
\* the injections that compiled, nothing else (after a failed attempt it is
\* as before the attempt, after a successful one the generated lines are
\* appended), and while an attempt is in flight the lines saved for the
\* rollback are that content.
C24_AllOrNothing ==
  tool \in {"base_uni_test", "rug_prompt"}
    => /\ \A c \in DOMAIN files :
            (ipc # "compile" \/ c # ci + 1) => files[c].lines = verified[c]
       /\ ipc = "compile" => origins = verified[ci + 1]

\* C25: in base_uni_test.py the while-not-finished loop of a target makes at
\* most two injection attempts and terminates, whatever the requests and the
\* compilations return and whether or not the target's file exists.
C25_RepairLoopTerminates ==
  /\ [](tool = "base_uni_test" => attempts <= 2)
  /\ (tool = "base_uni_test" /\ ipc = "request")
       ~> (ipc \in {"target", "crashed"})

\* C26: in rug_prompt.py the while-not-finished loop of a target calls
\* compile_run at most three times (my_counter counts down from 3), whatever
\* compile_run returns, the missing file included.
C26_AtMostThreeAttempts ==
  tool = "rug_prompt" => attempts <= Tries

\* the places of the sources that open an injected test module: crate (file)
\* and line
ModulePositions ==
  UNION { { <<c, i>> : i \in { j \in 1..Len(files[c].lines) :
                                Contains(ModTests, files[c].lines[j]) } } :
          c \in DOMAIN files }

\* the text that opens the module, its name and suffix included
ModuleHeader(p) == files[p[1]].lines[p[2]]

\* C29 as stated: across all files and all tests handled in one run of
\* base_uni_test.py or of fsync_patch.apply, no two injected test modules
\* that are in the sources carry the same numeric suffix.
C29_DistinctAcrossRun ==
  tool \in {"base_uni_test", "fsync_patch"}
    => \A p, q \in ModulePositions : p # q => ModuleHeader(p) # ModuleHeader(q)

\* C29, amended: apply of fsync_patch.py gives every injected module of one
\* call a distinct suffix, over all files; base_uni_test.py gives the modules
\* injected for the targets of one crate distinct suffixes (its uid starts
\* again at 1 for every crate of the run).
C29_DistinctPerCrate ==
  tool \in {"base_uni_test", "fsync_patch"}
    => \A p, q \in ModulePositions :
         (p # q /\ (tool = "fsync_patch" \/ p[1] = q[1]))
           => ModuleHeader(p) # ModuleHeader(q)

\* base_uni_test.py has injected the tests of two targets of the first crate
\* and one of the second
C29_Witness ==
  /\ tool = "base_uni_test"
  /\ ipc = "done"
  /\ ncrates = 2
  /\ Cardinality({p \in ModulePositions : p[1] = 1}) = 2
  /\ Cardinality({p \in ModulePositions : p[1] = 2}) >= 1

====
